---- MODULE Spec2Model ----
(***************************************************************************)
(* Multipart polygon relabelling and resolution                            *)
(* (polygon_processors/multipart_relabeller.py,                            *)
(*  class MultipartPolygonRelabeller).                                     *)
(*                                                                         *)
(* Identifiers are strings of decimal digits, modelled as sequences over   *)
(* 0..9.  A geometry is the set of the raw polygons it is the union of;    *)
(* the relation between two raw polygons is shared[<<i, j>>]: <<>> when     *)
(* they do not touch, <<len>> when they touch with a shared boundary of    *)
(* length len (0 for a vertex-only touch).  Lengths and attribute values   *)
(* are integers; a continuous attribute is an exact fraction <<num, den>>. *)
(***************************************************************************)
EXTENDS Integers, Sequences, FiniteSets, TLC

VARIABLES
    data,                \* self.data: the rows of the processor
    shared,              \* geometry: touch relation and shared boundary lengths
    min_shared_len,      \* argument min_shared_len of the resolution run
    pc,                  \* position in the pipeline
    dup_gdf,             \* argument dup_gdf: rows of the multipart groups
    non_dup_gdf,         \* argument non_dup_gdf: the candidate pool
    gi,                  \* position of the group loop (line 172)
    tier,                \* step of the loop body the current group is at
    resolved_rows,       \* local resolved_rows
    consumed_dup_idx,    \* local consumed_dup_idx
    consumed_nondup_idx, \* local consumed_nondup_idx
    generated_ids,       \* self.generated_ids
    outcome,             \* per group: steps tried, final state, absorbed candidates
    resolved_gdf,        \* first returned frame
    remaining_dup        \* second returned frame

vars == <<data, shared, min_shared_len, pc, dup_gdf, non_dup_gdf, gi, tier,
          resolved_rows, consumed_dup_idx, consumed_nondup_idx, generated_ids,
          outcome, resolved_gdf, remaining_dup>>

(***************************************************************************)
(* Program constants                                                       *)
(***************************************************************************)
id_length == 16
MergeIdWidth == 15
DefaultMinSharedLen == 5
CountWidth == 2
BaseStrip == 2
SuffixWidth == 3

(***************************************************************************)
(* Strings of digits 0..9                                                  *)
(***************************************************************************)
Zeros(n) == [i \in 1..n |-> 0]

\* str.ljust(width, "0"): pads on the right, never shortens
Ljust(s, width) == IF Len(s) >= width THEN s ELSE s \o Zeros(width - Len(s))

\* str.zfill(width): pads on the left, never shortens
Zfill(s, width) == IF Len(s) >= width THEN s ELSE Zeros(width - Len(s)) \o s

\* s[:n]
Prefix(s, n) == IF Len(s) <= n THEN s ELSE SubSeq(s, 1, n)

\* s[:-n]
DropLast(s, n) == IF Len(s) <= n THEN <<>> ELSE SubSeq(s, 1, Len(s) - n)

\* s[-n:]
LastN(s, n) == IF Len(s) <= n THEN s ELSE SubSeq(s, Len(s) - n + 1, Len(s))

StartsWith(s, p) == Len(p) <= Len(s) /\ SubSeq(s, 1, Len(p)) = p

\* int(s) for a string of digits
RECURSIVE StrToInt(_)
StrToInt(s) ==
    IF s = <<>> THEN 0
    ELSE 10 * StrToInt(SubSeq(s, 1, Len(s) - 1)) + s[Len(s)]

\* str(n) for n >= 0
RECURSIVE IntToStr(_)
IntToStr(n) == IF n < 10 THEN <<n>> ELSE IntToStr(n \div 10) \o <<n % 10>>

\* astype(int).astype(str): the decimal form without leading zeros
RECURSIVE AsIntStr(_)
AsIntStr(s) ==
    IF Len(s) > 1 /\ s[1] = 0 THEN AsIntStr(SubSeq(s, 2, Len(s))) ELSE s

\* s < t in the order of Python strings
RECURSIVE StrLess(_, _)
StrLess(s, t) ==
    IF t = <<>> THEN FALSE
    ELSE IF s = <<>> THEN TRUE
    ELSE IF s[1] # t[1] THEN s[1] < t[1]
    ELSE StrLess(Tail(s), Tail(t))

(***************************************************************************)
(* Sequences                                                               *)
(***************************************************************************)
Range(s) == {s[i] : i \in DOMAIN s}

RECURSIVE SelectSeqBy(_, _)
SelectSeqBy(s, keep) ==
    IF s = <<>> THEN <<>>
    ELSE (IF Head(s) \in keep THEN <<Head(s)>> ELSE <<>>) \o SelectSeqBy(Tail(s), keep)

RECURSIVE SumSeq(_)
SumSeq(s) == IF s = <<>> THEN 0 ELSE Head(s) + SumSeq(Tail(s))

SetMax(S) == CHOOSE x \in S : \A y \in S : y <= x

\* the order with the tie-break on shared_len left out
KeyGEPrimaryOnly(a, b) == a.total_shared >= b.total_shared

\* the sort key of line 358 compared: a ranks no lower than b
KeyGE(a, b) ==
    \/ a.total_shared > b.total_shared
    \/ a.total_shared = b.total_shared /\ a.shared_len >= b.shared_len

\* list.sort(key=..., reverse=True): descending, equal keys keep their order
RECURSIVE InsertDesc(_, _)
InsertDesc(x, sorted) ==
    IF sorted = <<>> THEN <<x>>
    ELSE IF KeyGE(Head(sorted), x) THEN <<Head(sorted)>> \o InsertDesc(x, Tail(sorted))
    ELSE <<x>> \o sorted

RECURSIVE SortDesc(_)
SortDesc(s) ==
    IF s = <<>> THEN <<>>
    ELSE InsertDesc(s[Len(s)], SortDesc(SubSeq(s, 1, Len(s) - 1)))

(***************************************************************************)
(* Exact fractions <<num, den>>, den > 0, in lowest terms                  *)
(***************************************************************************)
RECURSIVE GCD(_, _)
GCD(a, b) == IF b = 0 THEN a ELSE GCD(b, a % b)

Frac(n, d) == LET g == GCD(n, d) IN IF g = 0 THEN <<0, 1>> ELSE <<n \div g, d \div g>>

FracAdd(a, b) == Frac(a[1] * b[2] + b[1] * a[2], a[2] * b[2])

FracMul(a, b) == Frac(a[1] * b[1], a[2] * b[2])

(***************************************************************************)
(* Adjacency primitives (shapely touches, boundary intersection length)    *)
(***************************************************************************)
Pairs(n) == {p \in (1..n) \X (1..n) : p[1] < p[2]}

SharedOf(i, j) == IF i < j THEN shared[<<i, j>>] ELSE shared[<<j, i>>]

\* g1.touches(g2) for two input rows
Touches(a, b) == SharedOf(a.idx, b.idx) # <<>>

\* g1.boundary.intersection(g2.boundary).length for two touching input rows
SharedLength(a, b) == SharedOf(a.idx, b.idx)[1]

(***************************************************************************)
(* _relabel_multipart_blocks                                               *)
(***************************************************************************)
\* line 47: the identifier column as the text of an integer
AsTextIds(rows) == [i \in DOMAIN rows |-> [rows[i] EXCEPT !.block_id = AsIntStr(@)]]

IdCount(rows, id) == Cardinality({i \in DOMAIN rows : rows[i].block_id = id})

\* identify_multipart_polygons(data, poly_id, keep_largest=False): the rows
\* whose identifier occurs once, and the rows whose identifier occurs more
\* than once, each in the order of the input
Singles(rows) == SelectSeq(rows, LAMBDA r : IdCount(rows, r.block_id) = 1)
Duplicates(rows) == SelectSeq(rows, LAMBDA r : IdCount(rows, r.block_id) > 1)

\* groupby(poly_id).cumcount() + 1
CumCount(dup, i) ==
    Cardinality({k \in 1..i : dup[k].block_id = dup[i].block_id})

\* lines 54-62: the duplicated rows with their sequential two-digit suffix
RelabelDup(dup) ==
    [i \in DOMAIN dup |->
        [idx |-> dup[i].idx,
         block_id |-> dup[i].block_id \o Zfill(IntToStr(CumCount(dup, i)), CountWidth),
         orig_id |-> <<dup[i].block_id>>,
         was_multipart |-> 1,
         comb_adj |-> <<>>,
         geometry |-> {dup[i].idx},
         n_per |-> dup[i].n_per,
         n_vp_ocupada |-> dup[i].n_vp_ocupada,
         prom_escolaridad18 |-> <<dup[i].prom_escolaridad18, 1>>]]

\* lines 65-67: the rows that are no part of a duplicated identifier
RelabelSingles(singles, dup) ==
    LET original_ids == {DropLast(dup[i].block_id, CountWidth) : i \in DOMAIN dup}
        kept == SelectSeq(singles, LAMBDA r : r.block_id \notin original_ids)
    IN [i \in DOMAIN kept |->
        [idx |-> kept[i].idx,
         block_id |-> kept[i].block_id,
         orig_id |-> <<kept[i].block_id>>,
         was_multipart |-> 0,
         comb_adj |-> <<>>,
         geometry |-> {kept[i].idx},
         n_per |-> kept[i].n_per,
         n_vp_ocupada |-> kept[i].n_vp_ocupada,
         prom_escolaridad18 |-> <<kept[i].prom_escolaridad18, 1>>]]

\* lines 47-77: the relabelled rows, identifiers padded to id_length
RelabelMultipartBlocks(rows) ==
    LET text == AsTextIds(rows)
        dup == RelabelDup(Duplicates(text))
        all == RelabelSingles(Singles(text), dup) \o dup
    IN [i \in DOMAIN all |-> [all[i] EXCEPT !.block_id = Ljust(@, id_length)]]

(***************************************************************************)
(* _generate_new_id                                                        *)
(***************************************************************************)
\* the allocation scanning the identifiers of self.data only, not those
\* generated earlier in the run
GenerateNewIdExistingOnly(orig_id, rows, generated) ==
    LET base_id == DropLast(orig_id, BaseStrip)
        used_ids == {rows[i].block_id : i \in DOMAIN rows}
        suffixes == {StrToInt(LastN(x, SuffixWidth)) : x \in {u \in used_ids : StartsWith(u, base_id)}}
        next_suffix == (IF suffixes = {} THEN 0 ELSE SetMax(suffixes)) + 1
    IN base_id \o Zfill(IntToStr(next_suffix), SuffixWidth)

\* lines 85-95: the identifier allocated for a group, given the identifiers
\* of self.data and those generated so far
GenerateNewId(orig_id, rows, generated) ==
    LET base_id == DropLast(orig_id, BaseStrip)
        used_ids == {rows[i].block_id : i \in DOMAIN rows} \cup generated
        suffixes == {StrToInt(LastN(x, SuffixWidth)) : x \in {u \in used_ids : StartsWith(u, base_id)}}
        next_suffix == (IF suffixes = {} THEN 0 ELSE SetMax(suffixes)) + 1
    IN base_id \o Zfill(IntToStr(next_suffix), SuffixWidth)

(***************************************************************************)
(* _are_parts_contiguous                                                   *)
(***************************************************************************)
\* lines 110-118: part i touches some other part along at least min_len
TouchesAnySibling(parts, i, min_len) ==
    \E j \in DOMAIN parts :
        /\ i # j
        /\ Touches(parts[i], parts[j])
        /\ SharedLength(parts[i], parts[j]) >= min_len

\* the test without its "len(geoms) > 1" guard
ArePartsContiguousNoSizeGuard(parts, min_len) ==
    \A i \in DOMAIN parts : TouchesAnySibling(parts, i, min_len)

\* the test with "some part" in the place of "every part"
ArePartsContiguousAny(parts, min_len) ==
    \E i \in DOMAIN parts : TouchesAnySibling(parts, i, min_len) \/ Len(parts) <= 1

\* lines 105-123
ArePartsContiguous(parts, min_len) ==
    \A i \in DOMAIN parts : ~(~TouchesAnySibling(parts, i, min_len) /\ Len(parts) > 1)

(***************************************************************************)
(* _find_best_adjacent_polygon                                             *)
(***************************************************************************)
\* the validity test with the check of the shared length left out
CandidateValidTouchOnly(cand, parts, min_len) ==
    \A k \in DOMAIN parts : Touches(cand, parts[k])

\* lines 138-151: the candidate touches every part along at least min_len
CandidateValid(cand, parts, min_len) ==
    \A k \in DOMAIN parts :
        /\ Touches(cand, parts[k])
        /\ SharedLength(cand, parts[k]) >= min_len

\* total_shared of a valid candidate
CandidateTotal(cand, parts) ==
    SumSeq([k \in DOMAIN parts |-> SharedLength(cand, parts[k])])

\* lines 134-155: the loop over the candidates, from the accumulators
\* best_idx (<<>> for None) and best_shared
RECURSIVE BestFrom(_, _, _, _, _)
BestFrom(cands, parts, min_len, best_idx, best_shared) ==
    IF cands = <<>> THEN best_idx
    ELSE LET cand == Head(cands) IN
         IF CandidateValid(cand, parts, min_len)
            /\ CandidateTotal(cand, parts) > best_shared
         THEN BestFrom(Tail(cands), parts, min_len, <<cand.idx>>, CandidateTotal(cand, parts))
         ELSE BestFrom(Tail(cands), parts, min_len, best_idx, best_shared)

\* lines 131-157: <<>> for None, <<idx>> for the index found
FindBestAdjacentPolygon(parts, cands, min_len) ==
    BestFrom(cands, parts, min_len, <<>>, 0)

(***************************************************************************)
(* _merge_parts_and_targets                                                *)
(***************************************************************************)
GeomUnion(rows) == UNION {rows[i].geometry : i \in DOMAIN rows}

\* sum(t[avg_cols] * t[pop_col] for t in targets)
RECURSIVE WeightedSum(_)
WeightedSum(targets) ==
    IF targets = <<>> THEN <<0, 1>>
    ELSE FracAdd(FracMul(Head(targets).prom_escolaridad18, <<Head(targets).n_per, 1>>),
                 WeightedSum(Tail(targets)))

\* the plain mean of the base value and the target values, no weights
WeightedAvgUnweighted(base_dup, targets) ==
    LET total ==
            FracAdd(base_dup.prom_escolaridad18,
                    WeightedSum([i \in DOMAIN targets |-> [targets[i] EXCEPT !.n_per = 1]]))
    IN FracMul(total, <<1, 1 + Len(targets)>>)

\* lines 403-420: the continuous attribute of the merged row
WeightedAvg(base_dup, targets) ==
    LET pop_dup == base_dup.n_per
        pop_targets == SumSeq([i \in DOMAIN targets |-> targets[i].n_per])
        total_pop == pop_dup + pop_targets
        dup_avg == base_dup.prom_escolaridad18
        targets_avg ==
            IF pop_targets > 0
            THEN FracMul(WeightedSum(targets), <<1, pop_targets>>)
            ELSE dup_avg
    IN IF total_pop > 0
       THEN FracAdd(FracMul(dup_avg, Frac(pop_dup, total_pop)),
                    FracMul(targets_avg, Frac(pop_targets, total_pop)))
       ELSE dup_avg

\* the count column with the targets' values not added
CountsSumBaseOnly(base_dup, targets, col) == base_dup[col]

\* lines 396-398: a count column of the merged row
CountsSum(base_dup, targets, col) ==
    base_dup[col] + SumSeq([i \in DOMAIN targets |-> targets[i][col]])

\* lines 423-425: the lineage of original identifiers
RECURSIVE JoinOrigIds(_)
JoinOrigIds(rows) ==
    IF rows = <<>> THEN <<>> ELSE Head(rows).orig_id \o JoinOrigIds(Tail(rows))

\* the merge recording one absorbed neighbour whatever the number of targets
MergePartsAndTargetsCountOne(parts, targets, orig_id, rows, generated) ==
    LET base_dup == parts[1] IN
    [targets[1] EXCEPT
        !.geometry = GeomUnion(parts) \cup GeomUnion(targets),
        !.n_per = CountsSum(base_dup, targets, "n_per"),
        !.n_vp_ocupada = CountsSum(base_dup, targets, "n_vp_ocupada"),
        !.prom_escolaridad18 = WeightedAvg(base_dup, targets),
        !.was_multipart = 1,
        !.comb_adj = <<1>>,
        !.orig_id = JoinOrigIds(<<base_dup>> \o targets),
        !.block_id = GenerateNewId(orig_id, rows, generated)]

\* lines 388-437
MergePartsAndTargets(parts, targets, orig_id, rows, generated) ==
    LET base_dup == parts[1] IN
    [targets[1] EXCEPT
        !.geometry = GeomUnion(parts) \cup GeomUnion(targets),
        !.n_per = CountsSum(base_dup, targets, "n_per"),
        !.n_vp_ocupada = CountsSum(base_dup, targets, "n_vp_ocupada"),
        !.prom_escolaridad18 = WeightedAvg(base_dup, targets),
        !.was_multipart = 1,
        !.comb_adj = <<Len(targets)>>,
        !.orig_id = JoinOrigIds(<<base_dup>> \o targets),
        !.block_id = GenerateNewId(orig_id, rows, generated)]

\* lines 176-180: the row of a directly contiguous group
DirectRow(parts, orig_id) ==
    [parts[1] EXCEPT
        !.geometry = GeomUnion(parts),
        !.block_id = orig_id,
        !.was_multipart = 1,
        !.comb_adj = <<0>>]

(***************************************************************************)
(* _merge_remaining_with_two_targets                                       *)
(***************************************************************************)
\* lines 293-296: the indices of the parts a candidate touches
TouchingParts(cand, parts) ==
    {parts[k].idx : k \in {m \in DOMAIN parts : Touches(cand, parts[m])}}

\* lines 284-298: the candidates that touch at least one part, in pool order
RECURSIVE TouchingCandidates(_, _)
TouchingCandidates(cands, parts) ==
    IF cands = <<>> THEN <<>>
    ELSE (IF TouchingParts(Head(cands), parts) # {}
          THEN <<[cand |-> Head(cands),
                  touching_parts |-> TouchingParts(Head(cands), parts)]>>
          ELSE <<>>)
         \o TouchingCandidates(Tail(cands), parts)

PartByIdx(parts, idx) == parts[CHOOSE k \in DOMAIN parts : parts[k].idx = idx]

\* lines 338-349: the shared boundary of a candidate with the parts it touches
SharedWithTouched(tc, parts) ==
    LET S == tc.touching_parts
        order == SelectSeqBy([k \in DOMAIN parts |-> parts[k].idx], S)
    IN SumSeq([k \in DOMAIN order |-> SharedLength(tc.cand, PartByIdx(parts, order[k]))])

\* lines 317-351: the entry of valid_pairs for candidates i < j, if any
PairEntry(tcs, i, j, parts, min_len) ==
    LET c1 == tcs[i]
        c2 == tcs[j]
        all_parts_idx == {parts[k].idx : k \in DOMAIN parts}
    IN IF ~Touches(c1.cand, c2.cand) THEN <<>>
       ELSE IF SharedLength(c1.cand, c2.cand) < min_len THEN <<>>
       ELSE IF (c1.touching_parts \cup c2.touching_parts) # all_parts_idx THEN <<>>
       ELSE <<[idx1 |-> c1.cand.idx,
               idx2 |-> c2.cand.idx,
               total_shared |-> SharedWithTouched(c1, parts) + SharedWithTouched(c2, parts),
               shared_len |-> SharedLength(c1.cand, c2.cand)]>>

\* lines 311-351: valid_pairs, in the order of the two nested loops
RECURSIVE ValidPairsFrom(_, _, _, _, _)
ValidPairsFrom(tcs, i, j, parts, min_len) ==
    IF i > Len(tcs) THEN <<>>
    ELSE IF j > Len(tcs) THEN ValidPairsFrom(tcs, i + 1, i + 2, parts, min_len)
    ELSE PairEntry(tcs, i, j, parts, min_len)
         \o ValidPairsFrom(tcs, i, j + 1, parts, min_len)

\* lines 280-360: <<>> for None, else <<best_idx1, best_idx2>>
FindBestPair(parts, cands, min_len) ==
    LET tcs == TouchingCandidates(cands, parts)
        valid_pairs == ValidPairsFrom(tcs, 1, 2, parts, min_len)
    IN IF Len(tcs) < 2 THEN <<>>
       ELSE IF valid_pairs = <<>> THEN <<>>
       ELSE LET best == SortDesc(valid_pairs)[1] IN <<best.idx1, best.idx2>>

RowByIdx(rows, idx) == rows[CHOOSE k \in DOMAIN rows : rows[k].idx = idx]

(***************************************************************************)
(* _resolve_multipart_by_contiguity                                        *)
(***************************************************************************)
\* the smallest string of a non-empty set
MinStr(S) == CHOOSE x \in S : \A y \in S : y = x \/ StrLess(x, y)

RECURSIVE SortedStrs(_)
SortedStrs(S) ==
    IF S = {} THEN <<>> ELSE <<MinStr(S)>> \o SortedStrs(S \ {MinStr(S)})

\* dup_gdf.groupby(orig_id_col): the group keys in ascending order
GroupKeys(dup) == SortedStrs({dup[i].orig_id[1] : i \in DOMAIN dup})

\* the rows of one group, in the order of dup_gdf
GroupParts(dup, key) == SelectSeq(dup, LAMBDA r : r.orig_id[1] = key)

IdxOf(rows) == [i \in DOMAIN rows |-> rows[i].idx]

NumGroups == Len(GroupKeys(dup_gdf))
CurKey == GroupKeys(dup_gdf)[gi]
CurParts == GroupParts(dup_gdf, CurKey)

\* the second frame with the consumed parts not dropped
RemainingDupKeepAll(dup, consumed) == dup

\* line 230: the second returned frame
RemainingDup(dup, consumed) == SelectSeq(dup, LAMBDA r : r.idx \notin Range(consumed))

\* lines 259-261
FinalId(id) == Ljust(Prefix(id, MergeIdWidth), MergeIdWidth)

\* the first frame with the consumed pool rows not dropped
ResolvedGdfKeepConsumed(non_dup, consumed, rows) ==
    LET combined_df == non_dup \o rows
    IN [i \in DOMAIN combined_df |->
           [combined_df[i] EXCEPT !.idx = i, !.block_id = FinalId(@)]]

\* lines 233-261: the first returned frame
ResolvedGdf(non_dup, consumed, rows) ==
    LET remaining_nondup == SelectSeq(non_dup, LAMBDA r : r.idx \notin Range(consumed))
        combined_df == remaining_nondup \o rows
    IN [i \in DOMAIN combined_df |->
           [combined_df[i] EXCEPT
               \* lines 236-243: the index is renumbered only by the concat
               !.idx = IF rows # <<>> THEN i ELSE @,
               !.block_id = FinalId(@)]]

\* the caller's split of self.data into the two arguments
BeginResolve ==
    /\ pc = "relabelled"
    /\ dup_gdf' = SelectSeq(data, LAMBDA r : r.was_multipart = 1)
    /\ non_dup_gdf' = SelectSeq(data, LAMBDA r : r.was_multipart = 0)
    /\ gi' = 1
    /\ tier' = 1
    /\ outcome' = [g \in 1..Len(GroupKeys(dup_gdf')) |->
                      [tried |-> <<>>, state |-> "START", absorbed |-> <<>>]]
    /\ pc' = "resolve"
    /\ UNCHANGED <<data, shared, min_shared_len, resolved_rows, consumed_dup_idx,
                   consumed_nondup_idx, generated_ids, resolved_gdf, remaining_dup>>

Relabel ==
    /\ pc = "raw"
    /\ data' = RelabelMultipartBlocks(data)
    /\ pc' = "relabelled"
    /\ UNCHANGED <<shared, min_shared_len, dup_gdf, non_dup_gdf, gi, tier,
                   resolved_rows, consumed_dup_idx, consumed_nondup_idx,
                   generated_ids, outcome, resolved_gdf, remaining_dup>>

InLoop == pc = "resolve" /\ gi <= NumGroups

\* STEP 1 without its "continue": a contiguous group is merged and the loop
\* body goes on to STEP 2
Tier1FallThrough ==
    /\ InLoop
    /\ tier = 1
    /\ IF ArePartsContiguous(CurParts, min_shared_len)
       THEN /\ resolved_rows' = Append(resolved_rows, DirectRow(CurParts, CurKey))
            /\ consumed_dup_idx' = consumed_dup_idx \o IdxOf(CurParts)
            /\ outcome' = [outcome EXCEPT ![gi].tried = Append(@, 1),
                                          ![gi].state = "MERGED_DIRECT"]
       ELSE /\ outcome' = [outcome EXCEPT ![gi].tried = Append(@, 1)]
            /\ UNCHANGED <<resolved_rows, consumed_dup_idx>>
    /\ tier' = 2
    /\ UNCHANGED <<data, shared, min_shared_len, pc, dup_gdf, non_dup_gdf, gi,
                   consumed_nondup_idx, generated_ids, resolved_gdf, remaining_dup>>

\* lines 174-184: STEP 1, direct contiguity
Tier1 ==
    /\ InLoop
    /\ tier = 1
    /\ IF ArePartsContiguous(CurParts, min_shared_len)
       THEN /\ resolved_rows' = Append(resolved_rows, DirectRow(CurParts, CurKey))
            /\ consumed_dup_idx' = consumed_dup_idx \o IdxOf(CurParts)
            /\ outcome' = [outcome EXCEPT ![gi].tried = Append(@, 1),
                                          ![gi].state = "MERGED_DIRECT"]
            /\ gi' = gi + 1
            /\ tier' = 1
       ELSE /\ outcome' = [outcome EXCEPT ![gi].tried = Append(@, 1)]
            /\ tier' = 2
            /\ UNCHANGED <<resolved_rows, consumed_dup_idx, gi>>
    /\ UNCHANGED <<data, shared, min_shared_len, pc, dup_gdf, non_dup_gdf,
                   consumed_nondup_idx, generated_ids, resolved_gdf, remaining_dup>>

\* lines 186-208: STEP 2, a single adjacent polygon
Tier2 ==
    /\ InLoop
    /\ tier = 2
    /\ LET candidate_idx == FindBestAdjacentPolygon(CurParts, non_dup_gdf, min_shared_len) IN
       IF candidate_idx # <<>>
       THEN LET target == RowByIdx(non_dup_gdf, candidate_idx[1])
                new_row == MergePartsAndTargets(CurParts, <<target>>, CurKey,
                                                data, generated_ids)
            IN /\ resolved_rows' = Append(resolved_rows, new_row)
               /\ generated_ids' = generated_ids \cup {new_row.block_id}
               /\ consumed_dup_idx' = consumed_dup_idx \o IdxOf(CurParts)
               /\ consumed_nondup_idx' = Append(consumed_nondup_idx, candidate_idx[1])
               /\ outcome' = [outcome EXCEPT ![gi].tried = Append(@, 2),
                                             ![gi].state = "MERGED_SINGLE",
                                             ![gi].absorbed = candidate_idx]
               /\ gi' = gi + 1
               /\ tier' = 1
       ELSE /\ outcome' = [outcome EXCEPT ![gi].tried = Append(@, 2)]
            /\ tier' = 3
            /\ UNCHANGED <<resolved_rows, generated_ids, consumed_dup_idx,
                           consumed_nondup_idx, gi>>
    /\ UNCHANGED <<data, shared, min_shared_len, pc, dup_gdf, non_dup_gdf,
                   resolved_gdf, remaining_dup>>

\* lines 210-226: STEP 3, two adjacent polygons
Tier3 ==
    /\ InLoop
    /\ tier = 3
    /\ LET used_indices == FindBestPair(CurParts, non_dup_gdf, min_shared_len) IN
       IF used_indices # <<>>
       THEN LET targets == <<RowByIdx(non_dup_gdf, used_indices[1]),
                             RowByIdx(non_dup_gdf, used_indices[2])>>
                new_row == MergePartsAndTargets(CurParts, targets, CurKey,
                                                data, generated_ids)
            IN /\ resolved_rows' = Append(resolved_rows, new_row)
               /\ generated_ids' = generated_ids \cup {new_row.block_id}
               /\ consumed_dup_idx' = consumed_dup_idx \o IdxOf(CurParts)
               /\ consumed_nondup_idx' = consumed_nondup_idx \o used_indices
               /\ outcome' = [outcome EXCEPT ![gi].tried = Append(@, 3),
                                             ![gi].state = "MERGED_PAIR",
                                             ![gi].absorbed = used_indices]
       ELSE /\ outcome' = [outcome EXCEPT ![gi].tried = Append(@, 3),
                                          ![gi].state = "UNRESOLVED"]
            /\ UNCHANGED <<resolved_rows, generated_ids, consumed_dup_idx,
                           consumed_nondup_idx>>
    /\ gi' = gi + 1
    /\ tier' = 1
    /\ UNCHANGED <<data, shared, min_shared_len, pc, dup_gdf, non_dup_gdf,
                   resolved_gdf, remaining_dup>>

\* lines 228-263: the loop is over, the frames are assembled and returned
Finish ==
    /\ pc = "resolve"
    /\ gi > NumGroups
    /\ remaining_dup' = RemainingDup(dup_gdf, consumed_dup_idx)
    /\ resolved_gdf' = ResolvedGdf(non_dup_gdf, consumed_nondup_idx, resolved_rows)
    /\ pc' = "done"
    /\ UNCHANGED <<data, shared, min_shared_len, dup_gdf, non_dup_gdf, gi, tier,
                   resolved_rows, consumed_dup_idx, consumed_nondup_idx,
                   generated_ids, outcome>>

Next == Relabel \/ BeginResolve \/ Tier1 \/ Tier2 \/ Tier3 \/ Finish

(***************************************************************************)
(* Initial states: the raw rows and their geometry                         *)
(***************************************************************************)
\* A layout gives each raw row its block; the rows of one block are the
\* parts of a multipart polygon, a block of one row is a pool polygon.
IsPartRow(layout, i) == \E j \in DOMAIN layout : j # i /\ layout[j] = layout[i]

IntraPairs(layout) == {p \in Pairs(Len(layout)) : layout[p[1]] = layout[p[2]]}

PartCandPairs(layout) ==
    {p \in Pairs(Len(layout)) : IsPartRow(layout, p[1]) # IsPartRow(layout, p[2])}

CandCandPairs(layout) ==
    {p \in Pairs(Len(layout)) : ~IsPartRow(layout, p[1]) /\ ~IsPartRow(layout, p[2])}

RawRows(layout, ids, n_per, n_vp, prom) ==
    [i \in DOMAIN layout |->
        [idx |-> i,
         block_id |-> ids[layout[i]],
         n_per |-> n_per[i],
         n_vp_ocupada |-> n_vp[i],
         prom_escolaridad18 |-> prom[i]]]

\* the state at construction: rows loaded, nothing relabelled or resolved
Loaded(rows, min_len) ==
    /\ data = rows
    /\ min_shared_len = min_len
    /\ pc = "raw"
    /\ dup_gdf = <<>>
    /\ non_dup_gdf = <<>>
    /\ gi = 1
    /\ tier = 1
    /\ resolved_rows = <<>>
    /\ consumed_dup_idx = <<>>
    /\ consumed_nondup_idx = <<>>
    /\ generated_ids = {}
    /\ outcome = <<>>
    /\ resolved_gdf = <<>>
    /\ remaining_dup = <<>>

\* every geometry in which the parts of a block relate by a value of intra,
\* a part and a pool polygon by a value of part_cand, two pool polygons by a
\* value of cand_cand; parts of different blocks are never compared
Geometry(layout, intra, part_cand, cand_cand) ==
    \E fi \in [IntraPairs(layout) -> intra] :
    \E fp \in [PartCandPairs(layout) -> part_cand] :
    \E fc \in [CandCandPairs(layout) -> cand_cand] :
        shared = [p \in Pairs(Len(layout)) |->
                     IF p \in IntraPairs(layout) THEN fi[p]
                     ELSE IF p \in PartCandPairs(layout) THEN fp[p]
                     ELSE IF p \in CandCandPairs(layout) THEN fc[p]
                     ELSE <<>>]

\* block identifiers of one census district: 12 digits and a 2-digit number
DistrictPrefix == <<1, 3, 1, 1, 0, 0, 1, 1, 0, 0, 1, 0>>
BlockId(k) == DistrictPrefix \o Zfill(IntToStr(k), CountWidth)

NoTouch == <<>>
Touch(len) == <<len>>

DefaultIds(layout) == [k \in Range(layout) |-> BlockId(k)]
DefaultPop(layout) == [i \in DOMAIN layout |-> 10 * i]
DefaultCount(layout) == [i \in DOMAIN layout |-> i]
DefaultAvg(layout) == [i \in DOMAIN layout |-> 10 + i]

AtThreshold == {NoTouch, Touch(DefaultMinSharedLen)}

\* Two 2-part groups and a pool of PoolSize mutually adjacent polygons;
\* every touch is along the default threshold.
PoolSize == 2
MainLayout == <<1, 1, 2, 2>> \o [i \in 1..PoolSize |-> 2 + i]

Init ==
    /\ Loaded(RawRows(MainLayout, DefaultIds(MainLayout), DefaultPop(MainLayout),
                      DefaultCount(MainLayout), DefaultAvg(MainLayout)),
              DefaultMinSharedLen)
    /\ Geometry(MainLayout, AtThreshold, AtThreshold, {Touch(DefaultMinSharedLen)})

Spec == Init /\ [][Next]_vars

\* One 2-part group and a pool of three: the single-neighbour search over
\* vertex-only, threshold and longer touches, with the threshold 0 or default.
SearchLayout == <<1, 1, 2, 3, 4>>

InitSingle ==
    /\ \E min_len \in {0, DefaultMinSharedLen} :
           Loaded(RawRows(SearchLayout, DefaultIds(SearchLayout), DefaultPop(SearchLayout),
                          DefaultCount(SearchLayout), DefaultAvg(SearchLayout)),
                  min_len)
    /\ Geometry(SearchLayout, {NoTouch},
                {NoTouch, Touch(0), Touch(DefaultMinSharedLen), Touch(8)},
                {NoTouch})

SpecSingle == InitSingle /\ [][Next]_vars

\* The same group and pool: the two-neighbour search, the pool polygons
\* touching each other below, at and above the threshold.
InitPair ==
    /\ Loaded(RawRows(SearchLayout, DefaultIds(SearchLayout), DefaultPop(SearchLayout),
                      DefaultCount(SearchLayout), DefaultAvg(SearchLayout)),
              DefaultMinSharedLen)
    /\ Geometry(SearchLayout, {NoTouch},
                {NoTouch, Touch(0), Touch(DefaultMinSharedLen)},
                {NoTouch, Touch(3), Touch(DefaultMinSharedLen), Touch(8)})

SpecPair == InitPair /\ [][Next]_vars

\* One group of ContigParts parts and one pool polygon: the contiguity test
\* over touches below and above the threshold.
ContigParts == 3
ContigLayout == [i \in 1..ContigParts |-> 1] \o <<2>>

InitContig ==
    /\ Loaded(RawRows(ContigLayout, DefaultIds(ContigLayout), DefaultPop(ContigLayout),
                      DefaultCount(ContigLayout), DefaultAvg(ContigLayout)),
              DefaultMinSharedLen)
    /\ Geometry(ContigLayout, {NoTouch, Touch(3), Touch(10)}, AtThreshold, {NoTouch})

SpecContig == InitContig /\ [][Next]_vars

\* One 2-part group and a pool of two: populations and averaged values vary.
AttrLayout == <<1, 1, 2, 3>>
PopValues == {0, 50}
AvgValues == {12, 20}

InitAttr ==
    /\ \E n_per \in [DOMAIN AttrLayout -> PopValues] :
       \E prom \in [DOMAIN AttrLayout -> AvgValues] :
           Loaded(RawRows(AttrLayout, DefaultIds(AttrLayout), n_per,
                          [i \in DOMAIN AttrLayout |-> 2 ^ i], prom),
                  DefaultMinSharedLen)
    /\ Geometry(AttrLayout, AtThreshold, AtThreshold, {Touch(DefaultMinSharedLen)})

SpecAttr == InitAttr /\ [][Next]_vars

\* Two 2-part groups and one pool polygon: the block identifiers vary in
\* length (13 to 15 digits) and in their last digits.
IdLayout == <<1, 1, 2, 2, 3>>
IdChoices ==
    {BlockId(1), BlockId(2), BlockId(10),
     DistrictPrefix \o <<1>>,
     DistrictPrefix \o <<0, 1, 5>>}

InitIds ==
    /\ \E ids \in [Range(IdLayout) -> IdChoices] :
           /\ \A a, b \in Range(IdLayout) : a # b => ids[a] # ids[b]
           /\ Loaded(RawRows(IdLayout, ids, DefaultPop(IdLayout),
                             DefaultCount(IdLayout), DefaultAvg(IdLayout)),
                     DefaultMinSharedLen)
    /\ Geometry(IdLayout, AtThreshold, AtThreshold, {NoTouch})

SpecIds == InitIds /\ [][Next]_vars

(***************************************************************************)
(* Properties                                                              *)
(***************************************************************************)
Resolving == pc \in {"resolve", "done"}
Merged == {"MERGED_DIRECT", "MERGED_SINGLE", "MERGED_PAIR"}
Terminal == Merged \cup {"UNRESOLVED"}

PartsOf(g) == GroupParts(dup_gdf, GroupKeys(dup_gdf)[g])
AbsorbedBy(g) == [k \in DOMAIN outcome[g].absorbed |-> RowByIdx(non_dup_gdf, outcome[g].absorbed[k])]

\* the rows appended to resolved_rows for group g: those whose lineage
\* starts with the group's original identifier
RowsOf(g) == SelectSeq(resolved_rows, LAMBDA r : r.orig_id[1] = GroupKeys(dup_gdf)[g])

SumCol(rows, col) == SumSeq([i \in DOMAIN rows |-> rows[i][col]])

\* C1: in one run every pool polygon is absorbed by at most one part-group:
\* no two groups have an absorbed candidate in common.
C1_AbsorbedByAtMostOneGroup ==
    Resolving =>
        \A g, h \in DOMAIN outcome :
            g # h => Range(outcome[g].absorbed) \cap Range(outcome[h].absorbed) = {}

InputIdsDistinct ==
    LET rows == non_dup_gdf \o dup_gdf IN
    \A i, j \in DOMAIN rows : i # j => rows[i].block_id # rows[j].block_id

C3_FinalIdsDistinct ==
    (pc = "done" /\ InputIdsDistinct) =>
        \A i, j \in DOMAIN resolved_gdf :
            i # j => resolved_gdf[i].block_id # resolved_gdf[j].block_id

IsPrefixOf(s, t) == Len(s) <= Len(t) /\ SubSeq(t, 1, Len(s)) = s

\* C4: each group is resolved once and ends in one of the four states, the
\* tiers tried in strict order: the single-neighbour search only after the
\* contiguity test failed, the pair search only after the single-neighbour
\* search found none, unresolved only after the pair search found none; a
\* merged group contributes exactly one output row, an unresolved one none.
C4_TiersInStrictOrder ==
    Resolving =>
        \A g \in DOMAIN outcome :
            LET o == outcome[g]
                parts == PartsOf(g)
            IN /\ IsPrefixOf(o.tried, <<1, 2, 3>>)
               /\ o.state \in Terminal \cup {"START"}
               /\ (g < gi) = (o.state \in Terminal)
               /\ (o.state = "START" /\ g > gi) => o.tried = <<>>
               /\ (o.state = "START" /\ g = gi) => Len(o.tried) = tier - 1
               /\ o.state = "MERGED_DIRECT" => o.tried = <<1>>
               /\ o.state = "MERGED_SINGLE" => o.tried = <<1, 2>>
               /\ o.state \in {"MERGED_PAIR", "UNRESOLVED"} => o.tried = <<1, 2, 3>>
               /\ Len(o.tried) >= 1 =>
                     ((o.state = "MERGED_DIRECT") = ArePartsContiguous(parts, min_shared_len))
               /\ Len(o.tried) >= 2 =>
                     /\ ~ArePartsContiguous(parts, min_shared_len)
                     /\ (o.state = "MERGED_SINGLE")
                            = (FindBestAdjacentPolygon(parts, non_dup_gdf, min_shared_len) # <<>>)
               /\ Len(o.tried) >= 3 =>
                     /\ FindBestAdjacentPolygon(parts, non_dup_gdf, min_shared_len) = <<>>
                     /\ (o.state = "MERGED_PAIR")
                            = (FindBestPair(parts, non_dup_gdf, min_shared_len) # <<>>)
               /\ Len(RowsOf(g)) = (IF o.state \in Merged THEN 1 ELSE 0)
               /\ pc = "done" => o.state \in Terminal

\* a finished run with one group merged with a pair and one left unresolved
C4_Witness ==
    /\ pc = "done"
    /\ \E g, h \in DOMAIN outcome :
        /\ outcome[g].state = "MERGED_PAIR"
        /\ outcome[h].state = "UNRESOLVED"

\* the rows of a frame that hold raw polygon i
RowsHolding(frame, i) == {k \in DOMAIN frame : i \in frame[k].geometry}

Between(c, parts, k) == SharedOf(c.idx, parts[k].idx)

\* pool row c touches every part along at least min_shared_len
FullyValid(c, parts) ==
    \A k \in DOMAIN parts :
        Between(c, parts, k) # <<>> /\ Between(c, parts, k)[1] >= min_shared_len

\* the shared boundary of pool row c with the parts it touches, summed
TotalShared(c, parts) ==
    SumSeq([k \in DOMAIN parts |->
               IF Between(c, parts, k) = <<>> THEN 0 ELSE Between(c, parts, k)[1]])

FullyValidRows(parts) ==
    {i \in DOMAIN non_dup_gdf : FullyValid(non_dup_gdf[i], parts)}

\* C6 (as claimed): the single-neighbour search finds a candidate iff some
\* pool polygon touches every part along at least min_shared_len; the one
\* found is fully valid and its summed shared length is maximal among them.
C6_FindsIffFullyValidExists ==
    Resolving =>
        \A g \in DOMAIN outcome :
            Len(outcome[g].tried) >= 2 =>
                LET parts == PartsOf(g)
                    V == FullyValidRows(parts)
                IN /\ (outcome[g].state = "MERGED_SINGLE") = (V # {})
                   /\ outcome[g].state = "MERGED_SINGLE" =>
                          \E i \in V :
                              /\ outcome[g].absorbed = <<non_dup_gdf[i].idx>>
                              /\ \A j \in V : TotalShared(non_dup_gdf[i], parts)
                                                 >= TotalShared(non_dup_gdf[j], parts)

\* C6 (amended): the single-neighbour search finds a candidate iff some
\* fully valid pool polygon has a summed shared length greater than 0 (every
\* fully valid one has when min_shared_len > 0); the one found is fully
\* valid and its summed shared length is maximal among the fully valid ones.
C6_FindsIffPositiveFullyValidExists ==
    Resolving =>
        \A g \in DOMAIN outcome :
            Len(outcome[g].tried) >= 2 =>
                LET parts == PartsOf(g)
                    V == FullyValidRows(parts)
                IN /\ (outcome[g].state = "MERGED_SINGLE")
                          = (\E i \in V : TotalShared(non_dup_gdf[i], parts) > 0)
                   /\ min_shared_len > 0 =>
                          \A i \in V : TotalShared(non_dup_gdf[i], parts) > 0
                   /\ outcome[g].state = "MERGED_SINGLE" =>
                          \E i \in V :
                              /\ outcome[g].absorbed = <<non_dup_gdf[i].idx>>
                              /\ \A j \in V : TotalShared(non_dup_gdf[i], parts)
                                                 >= TotalShared(non_dup_gdf[j], parts)

\* the search chose, among several fully valid candidates, one that is not
\* the first of the pool and shares strictly more than another
C6_Witness ==
    /\ Resolving
    /\ \E g \in DOMAIN outcome :
        /\ outcome[g].state = "MERGED_SINGLE"
        /\ min_shared_len > 0
        /\ \E i, j \in FullyValidRows(PartsOf(g)) :
            /\ j < i
            /\ outcome[g].absorbed = <<non_dup_gdf[i].idx>>
            /\ TotalShared(non_dup_gdf[i], PartsOf(g)) > TotalShared(non_dup_gdf[j], PartsOf(g))

\* the parts of the group pool row c touches, as positions in parts
TouchSet(c, parts) == {k \in DOMAIN parts : Between(c, parts, k) # <<>>}

\* pool rows i < j form a valid pair for the group
ValidPair(i, j, parts) ==
    LET a == non_dup_gdf[i]
        b == non_dup_gdf[j]
    IN /\ TouchSet(a, parts) # {}
       /\ TouchSet(b, parts) # {}
       /\ SharedOf(a.idx, b.idx) # <<>>
       /\ SharedOf(a.idx, b.idx)[1] >= min_shared_len
       /\ TouchSet(a, parts) \cup TouchSet(b, parts) = DOMAIN parts

ValidPairSet(parts) ==
    {p \in (DOMAIN non_dup_gdf) \X (DOMAIN non_dup_gdf) :
        p[1] < p[2] /\ ValidPair(p[1], p[2], parts)}

PairTotal(p, parts) ==
    TotalShared(non_dup_gdf[p[1]], parts) + TotalShared(non_dup_gdf[p[2]], parts)

PairBetween(p) == SharedOf(non_dup_gdf[p[1]].idx, non_dup_gdf[p[2]].idx)[1]

\* p ranks no lower than q: by total shared length, then by the length the
\* two candidates share with each other
RanksNoLower(p, q, parts) ==
    \/ PairTotal(p, parts) > PairTotal(q, parts)
    \/ PairTotal(p, parts) = PairTotal(q, parts) /\ PairBetween(p) >= PairBetween(q)

\* C7: the two-neighbour search finds a pair iff two distinct pool polygons,
\* each touching a part, touch each other along at least the threshold and
\* together touch every part; the pair found is valid and no valid pair
\* ranks above it by (total shared length, length shared by the two).
C7_FindsBestValidPair ==
    Resolving =>
        \A g \in DOMAIN outcome :
            Len(outcome[g].tried) >= 3 =>
                LET parts == PartsOf(g)
                    VP == ValidPairSet(parts)
                IN /\ (outcome[g].state = "MERGED_PAIR") = (VP # {})
                   /\ (outcome[g].state = "UNRESOLVED") = (VP = {})
                   /\ outcome[g].state = "MERGED_PAIR" =>
                          \E p \in VP :
                              /\ outcome[g].absorbed
                                     = <<non_dup_gdf[p[1]].idx, non_dup_gdf[p[2]].idx>>
                              /\ \A q \in VP : RanksNoLower(p, q, parts)

\* a pair was chosen over an earlier pair of the same total by the length
\* the two candidates share (8 against the threshold 5), each part touching
\* one of the two
C7_Witness ==
    /\ Resolving
    /\ \E g \in DOMAIN outcome :
        /\ outcome[g].state = "MERGED_PAIR"
        /\ \E p, q \in ValidPairSet(PartsOf(g)) :
            /\ outcome[g].absorbed = <<non_dup_gdf[p[1]].idx, non_dup_gdf[p[2]].idx>>
            /\ q[1] < p[1]
            /\ PairTotal(p, PartsOf(g)) = PairTotal(q, PartsOf(g))
            /\ PairBetween(p) = 8
            /\ PairBetween(q) = DefaultMinSharedLen

\* part i touches part j along at least min_shared_len
Adjacent(parts, i, j) ==
    /\ i # j
    /\ SharedOf(parts[i].idx, parts[j].idx) # <<>>
    /\ SharedOf(parts[i].idx, parts[j].idx)[1] >= min_shared_len

\* the parts reachable from the parts in seen
RECURSIVE ReachFrom(_, _)
ReachFrom(parts, seen) ==
    LET more == {j \in DOMAIN parts : \E i \in seen : Adjacent(parts, i, j)} IN
    IF more \subseteq seen THEN seen ELSE ReachFrom(parts, seen \cup more)

\* the connectivity-correct test: the adjacency graph is one component
SingleComponent(parts) == ReachFrom(parts, {1}) = DOMAIN parts

\* parts A and B touch along 10, part C touches no sibling
PairAndIsolatedPart(parts) ==
    /\ Len(parts) >= 3
    /\ \E a, b, c \in DOMAIN parts :
        /\ a # b /\ a # c /\ b # c
        /\ SharedOf(parts[a].idx, parts[b].idx) = Touch(10)
        /\ \A j \in DOMAIN parts \ {c} : SharedOf(parts[c].idx, parts[j].idx) = NoTouch

\* C8 (as claimed): a group with parts A, B adjacent along 10 and part C
\* isolated is accepted by the shipped contiguity test, and rejected by a
\* single-component test.
C8_WeakAcceptsPairAndIsolated ==
    Resolving =>
        \A g \in DOMAIN outcome :
            (Len(outcome[g].tried) >= 1 /\ PairAndIsolatedPart(PartsOf(g))) =>
                /\ outcome[g].state = "MERGED_DIRECT"
                /\ ~SingleComponent(PartsOf(g))

\* C8 (amended): such a group is rejected by the shipped contiguity test,
\* since part C touches no sibling, and by a single-component test alike.
C8_WeakRejectsPairAndIsolated ==
    Resolving =>
        \A g \in DOMAIN outcome :
            (Len(outcome[g].tried) >= 1 /\ PairAndIsolatedPart(PartsOf(g))) =>
                /\ outcome[g].state # "MERGED_DIRECT"
                /\ (Len(outcome[g].tried) >= 2 \/ tier = 2)
                /\ ~SingleComponent(PartsOf(g))

C8_Witness ==
    /\ Resolving
    /\ \E g \in DOMAIN outcome :
        /\ Len(outcome[g].tried) >= 1
        /\ Len(PartsOf(g)) = 3
        /\ PairAndIsolatedPart(PartsOf(g))

\* the averaged value the claim gives for a merge, with the base weighted
\* by base_pop
ExpectedAvg(base, absorbed, base_pop) ==
    LET pop_absorbed == SumCol(absorbed, "n_per")
        sum_absorbed ==
            SumSeq([i \in DOMAIN absorbed |->
                       absorbed[i].n_per * absorbed[i].prom_escolaridad18[1]])
    IN IF pop_absorbed = 0 \/ base_pop + pop_absorbed = 0
       THEN base.prom_escolaridad18
       ELSE Frac(base_pop * base.prom_escolaridad18[1] + sum_absorbed,
                 base_pop + pop_absorbed)

AbsorbedSome(g) == outcome[g].state \in {"MERGED_SINGLE", "MERGED_PAIR"}

C10_IdentifierWidths ==
    /\ pc # "raw" => \A i \in DOMAIN data : Len(data[i].block_id) = id_length
    /\ pc = "done" =>
           \A i \in DOMAIN resolved_gdf : Len(resolved_gdf[i].block_id) = MergeIdWidth


(***************************************************************************)
(* Identifier allocation of merged rows                                    *)
(***************************************************************************)
MergedWithNeighbours == {"MERGED_SINGLE", "MERGED_PAIR"}

\* the identifiers given to the rows of the groups before g that ended in one
\* of the given states
AllocatedBefore(g, states) ==
    {RowsOf(h)[1].block_id : h \in {k \in 1..(g - 1) : outcome[k].state \in states}}

\* the numbers read from the last SuffixWidth characters of the identifiers
\* that start with prefix p
SuffixesUnder(p, ids) ==
    {StrToInt(LastN(x, SuffixWidth)) : x \in {u \in ids : IsPrefixOf(p, u)}}

AllocPrefix(g) == DropLast(GroupKeys(dup_gdf)[g], BaseStrip)

\* the identifier the merge-relabel policy gives group g when the identifiers
\* in use are those of self.data and those of the earlier groups that ended
\* in one of the given states
PolicyId(g, states) ==
    LET in_use == {data[i].block_id : i \in DOMAIN data} \cup AllocatedBefore(g, states)
        S == SuffixesUnder(AllocPrefix(g), in_use)
    IN AllocPrefix(g) \o Zfill(IntToStr((IF S = {} THEN 0 ELSE SetMax(S)) + 1), SuffixWidth)

AllocSuffix(g) == StrToInt(LastN(RowsOf(g)[1].block_id, SuffixWidth))

MaxGroupSize == 4

\* lines 100-123: one call of the test on the rows of dup_gdf; it ends at
\* "return False" (line 121) or at "return True" (line 123)
CallArePartsContiguous ==
    /\ pc = "call"
    /\ pc' = IF ArePartsContiguous(dup_gdf, min_shared_len)
             THEN "return_true" ELSE "return_false"
    /\ UNCHANGED <<data, shared, min_shared_len, dup_gdf, non_dup_gdf, gi, tier,
                   resolved_rows, consumed_dup_idx, consumed_nondup_idx,
                   generated_ids, outcome, resolved_gdf, remaining_dup>>

NextContigCall == CallArePartsContiguous

\* a group of 1..MaxGroupSize parts of one block, any two of them apart,
\* touching along 3 or touching along the threshold
InitContigCall ==
    \E n \in 1..MaxGroupSize :
        LET layout == [i \in 1..n |-> 1]
            rows == RelabelMultipartBlocks(
                        RawRows(layout, DefaultIds(layout), DefaultPop(layout),
                                DefaultCount(layout), DefaultAvg(layout)))
        IN /\ data = rows
           /\ dup_gdf = rows
           /\ min_shared_len = DefaultMinSharedLen
           /\ pc = "call"
           /\ non_dup_gdf = <<>>
           /\ gi = 1
           /\ tier = 1
           /\ resolved_rows = <<>>
           /\ consumed_dup_idx = <<>>
           /\ consumed_nondup_idx = <<>>
           /\ generated_ids = {}
           /\ outcome = <<>>
           /\ resolved_gdf = <<>>
           /\ remaining_dup = <<>>
           /\ Geometry(layout, {NoTouch, Touch(3), Touch(DefaultMinSharedLen)}, {}, {})

SpecContigCall == InitContigCall /\ [][NextContigCall]_vars

Returned == pc \in {"return_true", "return_false"}

\* four parts in two adjacent pairs, no part of one pair adjacent to a part
\* of the other
TwoDisjointPairs(parts) ==
    /\ Len(parts) = 4
    /\ \E a, b, c, d \in DOMAIN parts :
        /\ Cardinality({a, b, c, d}) = 4
        /\ Adjacent(parts, a, b)
        /\ Adjacent(parts, c, d)
        /\ \A x \in {a, b} : \A y \in {c, d} : ~Adjacent(parts, x, y)

PoolIdx == {non_dup_gdf[i].idx : i \in DOMAIN non_dup_gdf}

\* the raw polygons in a merged row other than the group's own parts
AbsorbedPolygons(g) == RowsOf(g)[1].geometry \ Range(IdxOf(PartsOf(g)))

\* the rows of the returned frame that descend from group g
OutputRowsOf(g) ==
    SelectSeq(resolved_gdf,
              LAMBDA r : r.was_multipart = 1 /\ r.orig_id[1] = GroupKeys(dup_gdf)[g])

\* C13: every merged row is marked as multipart and its comb_adj is the
\* number of pool polygons absorbed into it: 0 after STEP 1, 1 after STEP 2,
\* 2 after STEP 3, never another value; the two polygons absorbed in STEP 3
\* are distinct pool polygons. The returned frame carries the same values.
C13_AbsorbedCountMatchesTier ==
    Resolving =>
        \A g \in DOMAIN outcome :
            outcome[g].state \in Merged =>
                LET row == RowsOf(g)[1]
                    absorbed == outcome[g].absorbed
                IN /\ row.was_multipart = 1
                   /\ row.comb_adj # <<>>
                   /\ row.comb_adj[1] \in {0, 1, 2}
                   /\ row.comb_adj[1] = Len(absorbed)
                   /\ row.comb_adj[1] = Cardinality(AbsorbedPolygons(g))
                   /\ AbsorbedPolygons(g) = Range(absorbed)
                   /\ Range(absorbed) \subseteq PoolIdx
                   /\ row.comb_adj[1] = (CASE outcome[g].state = "MERGED_DIRECT" -> 0
                                           [] outcome[g].state = "MERGED_SINGLE" -> 1
                                           [] outcome[g].state = "MERGED_PAIR" -> 2)
                   /\ outcome[g].state = "MERGED_PAIR" => absorbed[1] # absorbed[2]
                   /\ pc = "done" =>
                         /\ Len(OutputRowsOf(g)) = 1
                         /\ OutputRowsOf(g)[1].comb_adj = row.comb_adj
                         /\ OutputRowsOf(g)[1].geometry = row.geometry

\* a finished run with one group merged with one neighbour and one with two
C13_Witness ==
    /\ pc = "done"
    /\ \E g, h \in DOMAIN outcome :
        /\ outcome[g].state = "MERGED_SINGLE"
        /\ outcome[h].state = "MERGED_PAIR"


(***************************************************************************)
(* Pool polygons in the returned frame                                     *)
(***************************************************************************)
AbsorbedIdx == UNION {Range(outcome[g].absorbed) : g \in DOMAIN outcome}

\* the rows of the returned frame that are pool polygon c on its own
StandaloneRows(c) == {m \in DOMAIN resolved_gdf : resolved_gdf[m].geometry = {c.idx}}

SharesAtLeastThreshold(i, j) ==
    /\ SharedOf(i, j) # <<>>
    /\ SharedOf(i, j)[1] >= min_shared_len

\* C15: in every merge with two neighbours, each part of the group shares a
\* boundary of at least min_shared_len with at least one of the two absorbed
\* polygons; no part is covered only by a shorter touch such as a touch at
\* a vertex.
C15_PairCoversEveryPartAboveThreshold ==
    Resolving =>
        \A g \in DOMAIN outcome :
            outcome[g].state = "MERGED_PAIR" =>
                \A k \in DOMAIN PartsOf(g) :
                    \E a \in Range(outcome[g].absorbed) :
                        SharesAtLeastThreshold(PartsOf(g)[k].idx, a)

====
